---- MODULE Spec2Model ----
(***************************************************************************)
(* Verification model of the wildfire drone-fleet planner                  *)
(* (src/mainV1.0.py): the relay coverage optimizer, the fleet sizing       *)
(* optimizer and the multi-year expansion planner.                         *)
(*                                                                         *)
(* Each public function is checked under a specification of its own whose  *)
(* initial states enumerate the function's inputs:                         *)
(*   SpecRelay : RelayDeploymentOptimizer.optimize_relay_deployment         *)
(*   SpecEquip : WildfireEquipmentModel.optimize_equipment_config           *)
(*   SpecPlan  : WildfireEquipmentModel.multi_year_expansion                *)
(*   SpecPipeline : the base-year pipeline of main()                       *)
(*   SpecRng   : two simulations drawing from np.random                    *)
(*   SpecGui   : the analysis window of src/main.py (WeChatStyleWindow)    *)
(*   SpecGuiFair : SpecGui with the scheduled timers firing                *)
(*                                                                         *)
(* Numbers.  Positions are integer grid points.  The safety factor gamma   *)
(* (a float in the source) is an exact fraction num/den; np.ceil is the    *)
(* ceiling of that fraction.  pulp's prob.solve() is modelled by the       *)
(* contract of an exact integer-programming solver: it returns some        *)
(* minimiser of the objective over the feasible set, or reports the        *)
(* problem infeasible and leaves the variable values unspecified.          *)
(***************************************************************************)
EXTENDS Integers, Sequences, FiniteSets

VARIABLES
    pc,             \* position of the call under check: "ready", "loop", "done"
    eoc,            \* optimize_relay_deployment argument: command-center position
    frontlines,     \* optimize_relay_deployment argument: list of frontline positions
    candidates,     \* optimize_relay_deployment argument: list of candidate positions
    relay_result,   \* dict returned by optimize_relay_deployment
    params,         \* self.params (the keys the modelled functions read)
    D_SSA_max,      \* peak SSA demand (argument, or the current year's peak)
    D_R_max,        \* peak relay demand (argument, or the current year's peak)
    config,         \* dict returned by optimize_equipment_config
    base_config,    \* multi_year_expansion argument
    years,          \* multi_year_expansion argument
    year,           \* loop variable of multi_year_expansion
    F_SSA,          \* running SSA inventory of multi_year_expansion
    F_R,            \* running relay inventory of multi_year_expansion
    results,        \* list of year records of multi_year_expansion
    rng,            \* np.random's process-wide generator state
    events,         \* list of fire-event dicts of the pipeline under check
    D_SSA,          \* hourly SSA demand series (tracked hours)
    D_R,            \* hourly relay demand series (tracked hours)
    sim_pc,         \* per simulation: position in seed / generate calls
    sim_events,     \* per simulation: the event lists its calls returned
    fields,         \* window: text of every QLineEdit
    gui_params,     \* window: self.model.params (WildfireModel)
    progress_bar,   \* window: visibility and value of the progress bar
    buttons,        \* window: enabled flag of every button the handlers set
    timers,         \* window: callbacks scheduled by QTimer.singleShot
    analysis_results, \* window: self.analysis_results (absent until step 3)
    results_text    \* window: the report shown by display_results

vars == <<pc, eoc, frontlines, candidates, relay_result, params, D_SSA_max,
          D_R_max, config, base_config, years, year, F_SSA, F_R, results,
          rng, events, D_SSA, D_R, sim_pc, sim_events,
          fields, gui_params, progress_bar, buttons, timers,
          analysis_results, results_text>>

relayVars == <<eoc, frontlines, candidates, relay_result>>
equipVars == <<config>>
planVars  == <<base_config, years, year, F_SSA, F_R, results>>
eventVars == <<rng, events, D_SSA, D_R>>
simVars   == <<sim_pc, sim_events>>
guiVars   == <<fields, gui_params, progress_bar, buttons, timers,
               analysis_results, results_text>>

-----------------------------------------------------------------------------
(* Bounds of the model                                                     *)

MaxFrontlines == 2      \* longest frontline list enumerated
MaxCandidates == 2      \* longest candidate list enumerated

(* Program constant: RelayDeploymentOptimizer.R0, the coverage radius.     *)
R0 == 20

SeqsUpTo(S, n) == UNION {[1..k -> S] : k \in 0..n}

(* Grid points the inputs are drawn from.  Relative to (0,0): (12,16) is   *)
(* at distance exactly R0; the others are farther.  (30,0)-(50,0) are      *)
(* exactly R0 apart, (40,0) is within R0 of both, (100,100) is within R0   *)
(* of nothing but itself.  Relative to (20,0): (40,0) is at exactly R0.    *)
Positions == {<<12, 16>>, <<30, 0>>, <<40, 0>>, <<50, 0>>, <<100, 100>>}
EocPositions == {<<0, 0>>, <<20, 0>>}

-----------------------------------------------------------------------------
(* RelayDeploymentOptimizer                                                *)

(* calculate_distance returns sqrt(dx^2 + dy^2).  The model keeps the      *)
(* radicand: for integer coordinates and an integer radius r, IEEE sqrt is *)
(* correctly rounded and monotone, so sqrt(n) <= r exactly when n <= r*r.  *)
calculate_distance_sq(pos1, pos2) ==
    (pos1[1] - pos2[1]) * (pos1[1] - pos2[1]) +
    (pos1[2] - pos2[2]) * (pos1[2] - pos2[2])

(* Variant: the radius test written with < instead of <=. *)
within_R0_strict(pos1, pos2) == calculate_distance_sq(pos1, pos2) < R0 * R0

(* self.calculate_distance(a, b) <= self.R0 *)
within_R0(pos1, pos2) == calculate_distance_sq(pos1, pos2) <= R0 * R0

(* The binary decision variables y[j], one per candidate index.            *)
y_vars(cands) == 1..Len(cands)

(* Variant: the objective sums over range(len(candidates) - 1). *)
objective_vars_short(cands) == 1..(Len(cands) - 1)

(* Objective lpSum([y[j] for j in range(len(candidates))]): the variables  *)
(* that carry coefficient 1 in the objective.                              *)
objective_vars(cands) == 1..Len(cands)

(* Variant: the direct-link test inverted. *)
direct_connect_inverted(frontline, e) == IF within_R0(frontline, e) THEN 0 ELSE 1

(* direct_connect = 1 if distance(frontline, eoc) <= R0 else 0 *)
direct_connect(frontline, e) == IF within_R0(frontline, e) THEN 1 ELSE 0

(* Variant: every candidate is appended, the radius test forgotten. *)
covering_relays_all(frontline, cands) == 1..Len(cands)

(* covering_relays: the y[j] whose candidate lies within R0 of the frontline *)
covering_relays(frontline, cands) ==
    {j \in 1..Len(cands) : within_R0(frontline, cands[j])}

(* One constraint per frontline:                                           *)
(*   lpSum(covering_relays) + direct_connect >= 1                          *)
relay_constraints(e, fronts, cands) ==
    [k \in 1..Len(fronts) |->
        [covering |-> covering_relays(fronts[k], cands),
         direct   |-> direct_connect(fronts[k], e)]]

(* The problem handed to prob.solve(). *)
relay_problem(e, fronts, cands) ==
    [variables   |-> y_vars(cands),
     objective   |-> objective_vars(cands),
     constraints |-> relay_constraints(e, fronts, cands)]

(* An assignment of the binary variables is the set sel of variables at 1. *)
relay_feasible(prob, sel) ==
    \A k \in 1..Len(prob.constraints) :
        Cardinality(prob.constraints[k].covering \cap sel)
            + prob.constraints[k].direct >= 1

(* Variant: the problem created with LpMaximize. *)
relay_objective_max(prob, sel) == 0 - Cardinality(prob.objective \cap sel)

(* Value of the objective (sense LpMinimize) under an assignment. *)
relay_objective(prob, sel) == Cardinality(prob.objective \cap sel)

(* prob.solve() on the relay problem: every outcome an exact solver may    *)
(* produce.  A feasible problem ends "Optimal" with some minimiser; an     *)
(* infeasible one ends "Infeasible" and the values of y are unspecified.   *)
relay_solve(prob) ==
    LET feas == {sel \in SUBSET prob.variables : relay_feasible(prob, sel)}
    IN  IF feas # {}
        THEN {[status |-> "Optimal", y |-> sel] : sel \in
                 {s \in feas : \A t \in feas :
                      relay_objective(prob, s) <= relay_objective(prob, t)}}
        ELSE {[status |-> "Infeasible", y |-> sel] : sel \in SUBSET prob.variables}

(* deployed_relays: candidates[j] for j in range(len(candidates)) with     *)
(* pulp.value(y[j]) == 1, in candidate order.                              *)
RECURSIVE deployed_relays(_, _, _)
deployed_relays(cands, sel, j) ==
    IF j > Len(cands) THEN <<>>
    ELSE (IF j \in sel THEN <<cands[j]>> ELSE <<>>)
             \o deployed_relays(cands, sel, j + 1)

NoRelayResult == [deployed_positions |-> <<>>, num_relays |-> 0, status |-> "none"]

(* RelayDeploymentOptimizer.optimize_relay_deployment(eoc, frontlines, candidates) *)
optimize_relay_deployment ==
    /\ pc = "ready"
    /\ \E out \in relay_solve(relay_problem(eoc, frontlines, candidates)) :
          LET dep == deployed_relays(candidates, out.y, 1)
          IN  relay_result' = [deployed_positions |-> dep,
                               num_relays         |-> Len(dep),
                               status             |-> out.status]
    /\ pc' = "done"
    /\ UNCHANGED <<eoc, frontlines, candidates, params, D_SSA_max, D_R_max>>
    /\ UNCHANGED equipVars
    /\ UNCHANGED planVars
    /\ UNCHANGED <<eventVars, simVars, guiVars>>

-----------------------------------------------------------------------------
(* WildfireEquipmentModel.optimize_equipment_config                        *)

(* Ceiling of the fraction n/d, d > 0 (\div rounds towards minus infinity). *)
ceil_frac(n, d) == 0 - ((0 - n) \div d)

(* Variant: np.floor in place of np.ceil. *)
demand_floor(gamma, D_max) == (gamma.num * D_max) \div gamma.den

(* demand = np.ceil(self.params['gamma'] * D_max) *)
demand(gamma, D_max) == ceil_frac(gamma.num * D_max, gamma.den)

(* Variant: the two prices exchanged in the objective. *)
equip_objective_swapped(p, x) == p.p_R * x.x_SSA + p.p_SSA * x.x_R

(* Objective p_SSA * x_SSA + p_R * x_R (sense LpMinimize) under an          *)
(* assignment x of the two integer variables.                              *)
equip_objective(p, x) == p.p_SSA * x.x_SSA + p.p_R * x.x_R

(* x_SSA and x_R are Integer variables whose only bound is                 *)
(* lowBound = demand; no upper bound and no bound at 0 is given.           *)
equip_lowBound(p, D_max) == demand(p.gamma, D_max)

(* The solver's search is cut to SolveWindow values above each lower bound: *)
(* both prices are positive, so no minimiser lies higher.                  *)
SolveWindow == 2

equip_feasible(p, D1, D2) ==
    [x_SSA : equip_lowBound(p, D1)..(equip_lowBound(p, D1) + SolveWindow),
     x_R   : equip_lowBound(p, D2)..(equip_lowBound(p, D2) + SolveWindow)]

(* prob.solve() on the sizing problem: the feasible set is never empty, so *)
(* the status is "Optimal" and the values are some minimiser.              *)
equip_solve(p, D1, D2) ==
    LET feas == equip_feasible(p, D1, D2)
    IN  {[status |-> "Optimal", x |-> x] : x \in
            {a \in feas : \A b \in feas :
                 equip_objective(p, a) <= equip_objective(p, b)}}

(* WildfireEquipmentModel.optimize_equipment_config(D_SSA_max, D_R_max).   *)
(* int(varValue) is the identity on the whole values the solver returns.   *)
optimize_equipment_config ==
    /\ pc = "ready"
    /\ \E out \in equip_solve(params, D_SSA_max, D_R_max) :
          config' = [x_SSA_opt       |-> out.x.x_SSA,
                     x_R_opt         |-> out.x.x_R,
                     total_cost      |-> equip_objective(params, out.x),
                     peak_demand_SSA |-> D_SSA_max,
                     peak_demand_R   |-> D_R_max,
                     status          |-> out.status]
    /\ pc' = "done"
    /\ UNCHANGED <<params, D_SSA_max, D_R_max>>
    /\ UNCHANGED relayVars
    /\ UNCHANGED planVars
    /\ UNCHANGED <<eventVars, simVars, guiVars>>

-----------------------------------------------------------------------------
(* WildfireEquipmentModel.multi_year_expansion                             *)

Max(a, b) == IF a >= b THEN a ELSE b

(* Variant: the purchase taken as required - F without the max(0, .). *)
purchase_unclamped(required, F) == required - F

(* Variant: the purchase taken as the required level, the stock ignored. *)
purchase_ignoring_stock(required, F) == Max(0, required)

(* buy = max(0, required - F) *)
purchase(required, F) == Max(0, required - F)

(* Variant: the stock update left out. *)
updated_inventory_stale(F, buy) == F

(* F += buy *)
updated_inventory(F, buy) == F + buy

(* Variant: the relay term priced with p_SSA. *)
annual_cost_one_price(p, buy_SSA, buy_R) == buy_SSA * p.p_SSA + buy_R * p.p_SSA

(* annual_cost = buy_SSA * p_SSA + buy_R * p_R *)
annual_cost(p, buy_SSA, buy_R) == buy_SSA * p.p_SSA + buy_R * p.p_R

(* The year's peaks np.max(D_SSA), np.max(D_R) of the series built from    *)
(* the year's randomly generated events.  Every event adds at least 1 to   *)
(* both series for at least one hour, so the two peaks are both 0 (no      *)
(* event) or both positive; overlapping events make any value possible.    *)
MaxYearPeak == 2        \* highest yearly peak enumerated
year_peaks ==
    {pk \in [SSA : 0..MaxYearPeak, R : 0..MaxYearPeak] :
        (pk.SSA = 0) <=> (pk.R = 0)}

(* results = []; F_SSA = base_config['x_SSA_opt']; F_R = base_config['x_R_opt'] *)
multi_year_start ==
    /\ pc = "ready"
    /\ results' = <<>>
    /\ F_SSA' = base_config.x_SSA_opt
    /\ F_R' = base_config.x_R_opt
    /\ year' = 0
    /\ pc' = "loop"
    /\ UNCHANGED <<params, D_SSA_max, D_R_max, base_config, years>>
    /\ UNCHANGED relayVars
    /\ UNCHANGED equipVars
    /\ UNCHANGED <<eventVars, simVars, guiVars>>

(* One pass of "for year in range(years + 1)".  int(.) on the purchases    *)
(* and inventories is the identity: they are whole numbers.                *)
multi_year_iteration ==
    /\ pc = "loop"
    /\ year <= years
    /\ \E pk \in year_peaks :
          LET required_SSA == demand(params.gamma, pk.SSA)
              required_R   == demand(params.gamma, pk.R)
              buy_SSA      == purchase(required_SSA, F_SSA)
              buy_R        == purchase(required_R, F_R)
              new_SSA      == updated_inventory(F_SSA, buy_SSA)
              new_R        == updated_inventory(F_R, buy_R)
          IN  /\ D_SSA_max' = pk.SSA
              /\ D_R_max' = pk.R
              /\ F_SSA' = new_SSA
              /\ F_R' = new_R
              /\ results' = Append(results,
                    [year            |-> year,
                     peak_demand_SSA |-> pk.SSA,
                     peak_demand_R   |-> pk.R,
                     required_SSA    |-> required_SSA,
                     required_R      |-> required_R,
                     buy_SSA         |-> buy_SSA,
                     buy_R           |-> buy_R,
                     inventory_SSA   |-> new_SSA,
                     inventory_R     |-> new_R,
                     annual_cost     |-> annual_cost(params, buy_SSA, buy_R)])
    /\ year' = year + 1
    /\ pc' = "loop"
    /\ UNCHANGED <<params, base_config, years>>
    /\ UNCHANGED relayVars
    /\ UNCHANGED equipVars
    /\ UNCHANGED <<eventVars, simVars, guiVars>>

(* return pd.DataFrame(results), once range(years + 1) is exhausted *)
multi_year_return ==
    /\ pc = "loop"
    /\ year > years
    /\ pc' = "done"
    /\ UNCHANGED <<params, D_SSA_max, D_R_max>>
    /\ UNCHANGED relayVars
    /\ UNCHANGED equipVars
    /\ UNCHANGED planVars
    /\ UNCHANGED <<eventVars, simVars, guiVars>>

-----------------------------------------------------------------------------
(* np.random: the process-wide random stream                               *)
(*                                                                         *)
(* The generator state is the stream a seed determines (tape, read         *)
(* cyclically) and the position reached in it.  Every draw reads the entry *)
(* at the position and advances it; np.random.seed rewinds to position 0.  *)
(* The distributions map a raw entry to a sample, so that for a given      *)
(* state a draw is a fixed value, and over all tapes every combination of  *)
(* samples occurs.                                                         *)

TapeLen   == 5          \* entries of the stream enumerated
RawValues == 4          \* raw entries range over 0..RawValues-1
MaxFires  == 2          \* largest Poisson count enumerated

Min(a, b) == IF a <= b THEN a ELSE b

Tapes == [1..TapeLen -> 0..(RawValues - 1)]

np_random_seed(tape) == [tape |-> tape, pos |-> 0]

np_random_raw(g) == g.tape[(g.pos % Len(g.tape)) + 1]

np_random_next(g) == [g EXCEPT !.pos = @ + 1]

(* Variant: a count of at least 1 whatever the mean. *)
np_random_poisson_positive(lam, u) == 1 + (u % MaxFires)

(* np.random.poisson(lam): 0 when the mean is 0 (no draw is consumed),     *)
(* otherwise any count (here up to MaxFires).                              *)
np_random_poisson(lam, u) == IF lam = 0 THEN 0 ELSE u % (MaxFires + 1)

(* hours_per_year = 8760; also the bound of np.random.randint(0, 8760). *)
hours_per_year == 8760

(* The demand series are kept for the last TrackedWindow hours of the      *)
(* year; the start hours enumerated lie in that window, so every other     *)
(* entry of the 8760-entry arrays stays 0.                                 *)
TrackedWindow == 10
TrackedHours == (hours_per_year - TrackedWindow)..(hours_per_year - 1)

(* np.random.randint(0, 8760): the start hours enumerated. *)
StartTimes == <<hours_per_year - TrackedWindow, hours_per_year - TrackedWindow + 3,
                hours_per_year - 4, hours_per_year - 1>>
np_random_randint(u) == StartTimes[(u % Len(StartTimes)) + 1]

(* np.random.lognormal(...): the raw areas enumerated, in 1/1000 km^2:     *)
(* 0.05 (below the clamp), 0.562, 1.5 and 12 (above the clamp).            *)
RawAreas == <<50, 562, 1500, 12000>>
np_random_lognormal(u) == RawAreas[(u % Len(RawAreas)) + 1]

-----------------------------------------------------------------------------
(* WildfireEquipmentModel.generate_fire_events / calculate_equipment_demand *)
(*                                                                         *)
(* Units: raw area A_e in 1/1000 km^2, 'area' in 1/100 km^2 (round(A_e,2)), *)
(* 'duration' in 1/1000 h (not rounded by the code), 'squads' in 1/10      *)
(* (round(K_e,1)), 'fireline_length' in 1/100 km (round(L_e,2)).  The      *)
(* parameters alpha1, alpha2, S_SSA, T_cycle, R_max, beta are in tenths.   *)

(* round(n/d) to the nearest whole number, ties to even (Python round). *)
round_div(n, d) ==
    LET q == n \div d
        r == n % d
    IN  IF 2 * r < d THEN q
        ELSE IF 2 * r > d THEN q + 1
        ELSE IF q % 2 = 0 THEN q ELSE q + 1

(* Largest x in lo..hi with x * x <= n (np.sqrt, rounded down). *)
RECURSIVE isqrt(_, _, _)
isqrt(n, lo, hi) ==
    IF lo >= hi THEN lo
    ELSE LET mid == (lo + hi + 1) \div 2
         IN  IF mid * mid <= n THEN isqrt(n, mid, hi) ELSE isqrt(n, lo, mid - 1)

RECURSIVE Pow(_, _)
Pow(b, e) == IF e = 0 THEN 1 ELSE b * Pow(b, e - 1)

(* lam * (1 + growth_rate) ** year with growth_rate = 0.03, in units of    *)
(* 100^-year: zero exactly when lam is zero.                               *)
scaled_rate(lam, yr) == lam * Pow(103, yr)

(* Variant: only the upper clamp, max(0.1, .) forgotten. *)
clamp_area_upper_only(A_raw) == Min(10000, A_raw)

(* A_e = max(0.1, min(10.0, A_e)) *)
clamp_area(A_raw) == Max(100, Min(10000, A_raw))

(* L_e = 3 * sqrt(A_e * pi), rounded to 2 places; pi taken as 355/113.     *)
(* round(sqrt(X)) is (floor(sqrt(4X)) + 1) div 2 with X = 90 * pi * A_e.   *)
fireline_length(A_e) ==
    (isqrt((360 * 355 * A_e) \div 113, 0, 4000) + 1) \div 2

(* The event dict appended for one fire. *)
fire_event(p, region, start_time, A_raw) ==
    LET A_e == clamp_area(A_raw)
        K_e == Max(10000, p.alpha1 * 1000 + p.alpha2 * A_e)
        T_e == Max(4000, Min(48000, A_e * 8))
    IN  [region          |-> region,
         start_time      |-> start_time,
         duration        |-> T_e,
         area            |-> round_div(A_e, 10),
         squads          |-> round_div(K_e, 1000),
         fireline_length |-> fireline_length(A_e)]

(* "for _ in range(n_fires)": two draws per fire, start hour then area. *)
RECURSIVE gen_fires(_, _, _, _, _)
gen_fires(p, region, k, g, acc) ==
    IF k = 0 THEN [events |-> acc, rng |-> g]
    ELSE LET g1 == np_random_next(g)
             g2 == np_random_next(g1)
             ev == fire_event(p, region,
                              np_random_randint(np_random_raw(g)),
                              np_random_lognormal(np_random_raw(g1)))
         IN  gen_fires(p, region, k - 1, g2, Append(acc, ev))

(* "for region in range(self.params['R'])" *)
RECURSIVE gen_regions(_, _, _, _, _)
gen_regions(p, yr, region, g, acc) ==
    IF region >= p.R THEN [events |-> acc, rng |-> g]
    ELSE LET lam     == scaled_rate(p.lambda_i[region + 1], yr)
             n_fires == np_random_poisson(lam, np_random_raw(g))
             g1      == IF lam = 0 THEN g ELSE np_random_next(g)
             r       == gen_fires(p, region, n_fires, g1, acc)
         IN  gen_regions(p, yr, region + 1, r.rng, r.events)

(* generate_fire_events(year) as a function of the generator state: the    *)
(* returned list and the state left behind.                                *)
gen_events(p, yr, g) == gen_regions(p, yr, 0, g, <<>>)

(* n_SSA = int(max(ceil(A/S_SSA * T_cycle/R_max), ceil(K/2))) *)
n_SSA_of(p, ev) ==
    Max(ceil_frac(ev.area * p.T_cycle, 10 * p.S_SSA * p.R_max),
        ceil_frac(ev.squads, 20))

(* n_R = int(max(1, ceil(beta * L / (2 * R_cov)))) *)
n_R_of(p, ev) ==
    Max(1, ceil_frac(p.beta * ev.fireline_length, 2000 * p.R_cov))

(* calculate_equipment_demand: every event dict gains n_SSA and n_R. *)
with_demand(p, evs) ==
    [i \in 1..Len(evs) |->
        [region          |-> evs[i].region,
         start_time      |-> evs[i].start_time,
         duration        |-> evs[i].duration,
         area            |-> evs[i].area,
         squads          |-> evs[i].squads,
         fireline_length |-> evs[i].fireline_length,
         n_SSA           |-> n_SSA_of(p, evs[i]),
         n_R             |-> n_R_of(p, evs[i])]]

-----------------------------------------------------------------------------
(* WildfireEquipmentModel.create_demand_timeseries                         *)

ZeroSeries == [t \in TrackedHours |-> 0]

(* end = min(hours_per_year, start + duration); int(end) *)
int_end(ev) ==
    Min(hours_per_year * 1000, ev.start_time * 1000 + ev.duration) \div 1000

(* One pass of "for event in fire_events" on one of the two arrays:        *)
(*   if start < hours_per_year:                                            *)
(*       for t in range(int(start), int(end)):                             *)
(*           if t < hours_per_year: D[t] += n                              *)
add_event(D, ev, n) ==
    IF ev.start_time < hours_per_year
    THEN [t \in DOMAIN D |->
            IF t >= ev.start_time /\ t < int_end(ev) /\ t < hours_per_year
            THEN D[t] + n ELSE D[t]]
    ELSE D

RECURSIVE series_SSA(_, _, _)
series_SSA(evs, i, D) ==
    IF i > Len(evs) THEN D
    ELSE series_SSA(evs, i + 1, add_event(D, evs[i], evs[i].n_SSA))

RECURSIVE series_R(_, _, _)
series_R(evs, i, D) ==
    IF i > Len(evs) THEN D
    ELSE series_R(evs, i + 1, add_event(D, evs[i], evs[i].n_R))

(* np.max(D) over the whole array: the untracked entries are 0. *)
np_max(D) ==
    CHOOSE m \in {0} \cup {D[t] : t \in DOMAIN D} :
        \A t \in DOMAIN D : D[t] <= m /\ m >= 0

-----------------------------------------------------------------------------
(* The base-year pipeline of main(): lines 407-421                         *)

(* events = model.generate_fire_events(year=0) *)
generate_fire_events ==
    /\ pc = "start"
    /\ LET r == gen_events(params, 0, rng)
       IN  events' = r.events /\ rng' = r.rng
    /\ pc' = "generated"
    /\ UNCHANGED <<params, D_SSA_max, D_R_max, D_SSA, D_R>>
    /\ UNCHANGED <<relayVars, equipVars, planVars, simVars, guiVars>>

(* events_with_demand = model.calculate_equipment_demand(events) *)
calculate_equipment_demand ==
    /\ pc = "generated"
    /\ events' = with_demand(params, events)
    /\ pc' = "demanded"
    /\ UNCHANGED <<params, D_SSA_max, D_R_max, rng, D_SSA, D_R>>
    /\ UNCHANGED <<relayVars, equipVars, planVars, simVars, guiVars>>

(* D_SSA, D_R = model.create_demand_timeseries(events_with_demand) *)
create_demand_timeseries ==
    /\ pc = "demanded"
    /\ D_SSA' = series_SSA(events, 1, ZeroSeries)
    /\ D_R' = series_R(events, 1, ZeroSeries)
    /\ pc' = "aggregated"
    /\ UNCHANGED <<params, D_SSA_max, D_R_max, rng, events>>
    /\ UNCHANGED <<relayVars, equipVars, planVars, simVars, guiVars>>

(* The arguments np.max(D_SSA), np.max(D_R) of the call in line 421;       *)
(* the call itself is optimize_equipment_config.                           *)
main_peak_demand ==
    /\ pc = "aggregated"
    /\ D_SSA_max' = np_max(D_SSA)
    /\ D_R_max' = np_max(D_R)
    /\ pc' = "ready"
    /\ UNCHANGED <<params, rng, events, D_SSA, D_R>>
    /\ UNCHANGED <<relayVars, equipVars, planVars, simVars, guiVars>>

-----------------------------------------------------------------------------
(* Simulations sharing np.random                                           *)
(*                                                                         *)
(* A simulation is one run of the sequence of main(): np.random.seed(42),  *)
(* then the calls of generate_fire_events(year=0) of line 407 and of the   *)
(* first pass of multi_year_expansion (line 165).  np.random is module     *)
(* state of the process: all simulations of the process read and advance   *)
(* the one generator rng, and np.random.seed rewinds it for all of them    *)
(* (run_analysis of main.py does the same on every call).                  *)

MaxCalls == 2           \* calls of generate_fire_events per simulation

(* np.random.seed(42) *)
sim_seed(s) ==
    /\ sim_pc[s] = "idle"
    /\ rng' = np_random_seed(rng.tape)
    /\ sim_pc' = [sim_pc EXCEPT ![s] = "seeded"]
    /\ UNCHANGED <<pc, params, D_SSA_max, D_R_max, events, D_SSA, D_R, sim_events>>
    /\ UNCHANGED <<relayVars, equipVars, planVars, guiVars>>

(* events = model.generate_fire_events(year=0) *)
sim_generate(s) ==
    /\ sim_pc[s] = "seeded"
    /\ Len(sim_events[s]) < MaxCalls
    /\ LET r == gen_events(params, 0, rng)
       IN  /\ sim_events' = [sim_events EXCEPT ![s] = Append(@, r.events)]
           /\ rng' = r.rng
    /\ UNCHANGED <<pc, params, D_SSA_max, D_R_max, events, D_SSA, D_R, sim_pc>>
    /\ UNCHANGED <<relayVars, equipVars, planVars, guiVars>>

-----------------------------------------------------------------------------
(* The analysis window of src/main.py: WeChatStyleWindow and WildfireModel *)
(*                                                                         *)
(* Numbers read by float() are kept in hundredths; peak demands (floats of *)
(* the result records) in thousandths.                                     *)

(* The QLineEdits read by save_parameters and analyze_step3. *)
RegionFreqFields ==
    <<"region_freq_1", "region_freq_2", "region_freq_3", "region_freq_4",
      "region_freq_5">>
FloatFields ==
    {"A_mean", "A_std", "alpha1", "alpha2", "S_SSA", "T_cycle", "R_max",
     "R_cov", "beta", "p_SSA", "p_R", "gamma"}
FieldNames ==
    {"region_count", "years_input", "growth_input"} \cup FloatFields
        \cup {RegionFreqFields[i] : i \in 1..Len(RegionFreqFields)}

(* The texts the QLineEdits are created with. *)
DefaultTexts ==
    [region_count |-> "5",
     region_freq_1 |-> "10", region_freq_2 |-> "10", region_freq_3 |-> "10",
     region_freq_4 |-> "10", region_freq_5 |-> "10",
     A_mean |-> "1.5", A_std |-> "1.0", alpha1 |-> "2.0", alpha2 |-> "0.3",
     S_SSA |-> "0.8", T_cycle |-> "1.5", R_max |-> "0.3", R_cov |-> "15",
     beta |-> "1.3", p_SSA |-> "80000", p_R |-> "25000", gamma |-> "1.2",
     years_input |-> "10", growth_input |-> "0.03"]

(* Texts a user types: a positive whole number, zero, a negative number    *)
(* and a text that is no number.                                           *)
TypedTexts == {"3", "0", "-1", "abc"}

(* float(text): the texts it accepts (any other raises ValueError) and    *)
(* its value, in hundredths.                                               *)
FloatTexts ==
    {"5", "10", "1.5", "1.0", "2.0", "0.3", "0.8", "15", "1.3", "80000",
     "25000", "1.2", "0.03", "3", "0", "-1"}
float_ok(text) == text \in FloatTexts
float_of(text) ==
    CASE text = "5" -> 500       [] text = "10" -> 1000
      [] text = "1.5" -> 150     [] text = "1.0" -> 100
      [] text = "2.0" -> 200     [] text = "0.3" -> 30
      [] text = "0.8" -> 80      [] text = "15" -> 1500
      [] text = "1.3" -> 130     [] text = "80000" -> 8000000
      [] text = "25000" -> 2500000
      [] text = "1.2" -> 120     [] text = "0.03" -> 3
      [] text = "3" -> 300       [] text = "0" -> 0
      [] text = "-1" -> 0 - 100

(* int(text): only the texts of whole numbers are accepted. *)
IntTexts == {"5", "10", "15", "80000", "25000", "3", "0", "-1"}
int_ok(text) == text \in IntTexts
int_of(text) ==
    CASE text = "5" -> 5         [] text = "10" -> 10
      [] text = "15" -> 15       [] text = "80000" -> 80000
      [] text = "25000" -> 25000 [] text = "3" -> 3
      [] text = "0" -> 0         [] text = "-1" -> 0 - 1

(* WildfireModel.__init__: self.params *)
GuiDefaultParams ==
    [R |-> 5, lambda_i |-> <<1000, 1200, 800, 1500, 600>>,
     A_mean |-> 150, A_std |-> 100, alpha1 |-> 200, alpha2 |-> 30,
     S_SSA |-> 80, T_cycle |-> 150, R_max |-> 30, R_cov |-> 1500,
     beta |-> 130, p_SSA |-> 8000000, p_R |-> 2500000, gamma |-> 120]

(* Variant: the region keys are stored as soon as they are parsed, before  *)
(* the remaining fields are read.                                          *)
saved_params_partial(flds, old) ==
    IF /\ \A i \in 1..Len(RegionFreqFields) : float_ok(flds[RegionFreqFields[i]])
       /\ int_ok(flds["region_count"])
    THEN LET regions == [old EXCEPT
                            !.R = int_of(flds["region_count"]),
                            !.lambda_i = [i \in 1..Len(RegionFreqFields) |->
                                             float_of(flds[RegionFreqFields[i]])]]
         IN  IF \A f \in FloatFields : float_ok(flds[f])
             THEN [k \in DOMAIN old |->
                      IF k \in FloatFields THEN float_of(flds[k]) ELSE regions[k]]
             ELSE regions
    ELSE old

(* The effect of save_parameters on self.model.params: every float() and   *)
(* int() is evaluated before params.update is called, so a ValueError     *)
(* leaves params as it was; otherwise all fourteen keys are replaced.      *)
(* Nothing but the parse is checked.                                       *)
saved_params(flds, old) ==
    IF /\ \A i \in 1..Len(RegionFreqFields) : float_ok(flds[RegionFreqFields[i]])
       /\ int_ok(flds["region_count"])
       /\ \A f \in FloatFields : float_ok(flds[f])
    THEN [R        |-> int_of(flds["region_count"]),
          lambda_i |-> [i \in 1..Len(RegionFreqFields) |->
                           float_of(flds[RegionFreqFields[i]])],
          A_mean   |-> float_of(flds["A_mean"]),
          A_std    |-> float_of(flds["A_std"]),
          alpha1   |-> float_of(flds["alpha1"]),
          alpha2   |-> float_of(flds["alpha2"]),
          S_SSA    |-> float_of(flds["S_SSA"]),
          T_cycle  |-> float_of(flds["T_cycle"]),
          R_max    |-> float_of(flds["R_max"]),
          R_cov    |-> float_of(flds["R_cov"]),
          beta     |-> float_of(flds["beta"]),
          p_SSA    |-> float_of(flds["p_SSA"]),
          p_R      |-> float_of(flds["p_R"]),
          gamma    |-> float_of(flds["gamma"])]
    ELSE old

(* WildfireModel.run_analysis: np.random.seed(42) followed by              *)
(* randint(8, 15), randint(5, 12), randint(500000, 1500000),               *)
(* uniform(5, 12), uniform(3, 8).  The seed fixes the draws: the Mersenne  *)
(* Twister seeded with 42 yields 14, 8, 631932, 6.284043... and            *)
(* 6.898455...; the arguments years and growth_rate are not read.          *)
run_analysis ==
    [config |-> [x_SSA_opt |-> 14, x_R_opt |-> 8, total_cost |-> 631932,
                 peak_demand_SSA |-> 6284, peak_demand_R |-> 6898],
     multi_year |-> "None",
     relay_deployment |-> "None"]

(* The dict analyze_step3 stores when the call of run_analysis raises. *)
fallback_results ==
    [config |-> [x_SSA_opt |-> 10, x_R_opt |-> 6, total_cost |-> 1000000,
                 peak_demand_SSA |-> 8500, peak_demand_R |-> 5200]]

(* Variant: the except branch stores nothing. *)
step3_results_unset(flds) ==
    IF int_ok(flds["years_input"]) /\ float_ok(flds["growth_input"])
    THEN run_analysis
    ELSE [unset |-> TRUE]

(* The try/except of analyze_step3: int(years_input.text()) and            *)
(* float(growth_input.text()) are evaluated first; a ValueError (like any  *)
(* exception) is caught and the fallback dict is stored.                   *)
step3_results(flds) ==
    IF int_ok(flds["years_input"]) /\ float_ok(flds["growth_input"])
    THEN run_analysis
    ELSE fallback_results

(* self.analysis_results before analyze_step3 has run: no attribute. *)
NoResults == [unset |-> TRUE]
has_analysis_results(r) == "config" \in DOMAIN r

(* results_text before display_results has run. *)
NoReport == [text |-> ""]

(* The values display_results formats into the report: counts, the two     *)
(* investments (count * price, whole dollars), total cost, peaks, gamma    *)
(* and the ratios count / peak (hundredths; 0 when the peak is 0).         *)
report_of(r, p) ==
    LET c == r.config
    IN  [x_SSA_opt       |-> c.x_SSA_opt,
         x_R_opt         |-> c.x_R_opt,
         invest_SSA      |-> round_div(c.x_SSA_opt * p.p_SSA, 100),
         invest_R        |-> round_div(c.x_R_opt * p.p_R, 100),
         total_cost      |-> c.total_cost,
         peak_demand_SSA |-> c.peak_demand_SSA,
         peak_demand_R   |-> c.peak_demand_R,
         gamma           |-> p.gamma,
         margin_SSA      |-> IF c.peak_demand_SSA > 0
                             THEN round_div(c.x_SSA_opt * 100000, c.peak_demand_SSA)
                             ELSE 0,
         margin_R        |-> IF c.peak_demand_R > 0
                             THEN round_div(c.x_R_opt * 100000, c.peak_demand_R)
                             ELSE 0]

(* display_results: returns at once when analysis_results is absent. *)
display_results(r, p, shown) ==
    IF has_analysis_results(r) THEN report_of(r, p) ELSE shown

(* QTimer.singleShot(ms, callback): the callbacks scheduled and not yet    *)
(* run.  The event loop runs one of them at a time.                        *)
pending(cb) == \E i \in 1..Len(timers) : timers[i] = cb

(* Variant: the callback runs but its successor is never scheduled. *)
fired_lost(cb, next) ==
    LET i == CHOOSE k \in 1..Len(timers) : timers[k] = cb
    IN  SubSeq(timers, 1, i - 1) \o SubSeq(timers, i + 1, Len(timers))

(* The scheduled callbacks after cb has run and has scheduled next. *)
fired(cb, next) ==
    LET i == CHOOSE k \in 1..Len(timers) :
                 timers[k] = cb /\ \A j \in 1..(k - 1) : timers[j] # cb
    IN  Append(SubSeq(timers, 1, i - 1) \o SubSeq(timers, i + 1, Len(timers)),
               next)

MaxEdited == 1          \* fields holding a text other than their default

(* The fields the user is taken to edit: the region count, a rate, an area *)
(* parameter from the middle of the dict, and the years of step 3.         *)
EditableFields ==
    {"region_count", "region_freq_1", "A_mean", "years_input"}

(* The user replaces the text of a QLineEdit. *)
edit_field(f, text) ==
    /\ text # fields[f]
    /\ LET new == [fields EXCEPT ![f] = text]
       IN  /\ Cardinality({h \in FieldNames : new[h] # DefaultTexts[h]}) <= MaxEdited
           /\ fields' = new
    /\ UNCHANGED <<gui_params, progress_bar, buttons, timers,
                   analysis_results, results_text>>
    /\ UNCHANGED <<pc, params, D_SSA_max, D_R_max>>
    /\ UNCHANGED <<relayVars, equipVars, planVars, eventVars, simVars>>

(* WeChatStyleWindow.save_parameters (click on the save button) *)
save_parameters ==
    /\ gui_params' = saved_params(fields, gui_params)
    /\ UNCHANGED <<fields, progress_bar, buttons, timers,
                   analysis_results, results_text>>
    /\ UNCHANGED <<pc, params, D_SSA_max, D_R_max>>
    /\ UNCHANGED <<relayVars, equipVars, planVars, eventVars, simVars>>

(* Variant: the run button is left enabled while the analysis runs. *)
running_buttons_run_enabled(b) == [b EXCEPT !.stop_btn = TRUE]

(* run_btn.setEnabled(False); stop_btn.setEnabled(True) *)
running_buttons(b) == [b EXCEPT !.run_btn = FALSE, !.stop_btn = TRUE]

(* WeChatStyleWindow.run_simulation (click on the run button; a disabled   *)
(* button emits no click).  save_parameters() handles its own exceptions,  *)
(* so the except branch is not entered.                                    *)
run_simulation ==
    /\ buttons.run_btn
    /\ progress_bar' = [visible |-> TRUE, value |-> 0]
    /\ buttons' = running_buttons(buttons)
    /\ gui_params' = saved_params(fields, gui_params)
    /\ timers' = Append(timers, "analyze_step1")
    /\ UNCHANGED <<fields, analysis_results, results_text>>
    /\ UNCHANGED <<pc, params, D_SSA_max, D_R_max>>
    /\ UNCHANGED <<relayVars, equipVars, planVars, eventVars, simVars>>

analyze_step1 ==
    /\ pending("analyze_step1")
    /\ progress_bar' = [progress_bar EXCEPT !.value = 20]
    /\ timers' = fired("analyze_step1", "analyze_step2")
    /\ UNCHANGED <<fields, gui_params, buttons, analysis_results, results_text>>
    /\ UNCHANGED <<pc, params, D_SSA_max, D_R_max>>
    /\ UNCHANGED <<relayVars, equipVars, planVars, eventVars, simVars>>

analyze_step2 ==
    /\ pending("analyze_step2")
    /\ progress_bar' = [progress_bar EXCEPT !.value = 40]
    /\ timers' = fired("analyze_step2", "analyze_step3")
    /\ UNCHANGED <<fields, gui_params, buttons, analysis_results, results_text>>
    /\ UNCHANGED <<pc, params, D_SSA_max, D_R_max>>
    /\ UNCHANGED <<relayVars, equipVars, planVars, eventVars, simVars>>

analyze_step3 ==
    /\ pending("analyze_step3")
    /\ progress_bar' = [progress_bar EXCEPT !.value = 60]
    /\ analysis_results' = step3_results(fields)
    /\ timers' = fired("analyze_step3", "analyze_step4")
    /\ UNCHANGED <<fields, gui_params, buttons, results_text>>
    /\ UNCHANGED <<pc, params, D_SSA_max, D_R_max>>
    /\ UNCHANGED <<relayVars, equipVars, planVars, eventVars, simVars>>

analyze_step4 ==
    /\ pending("analyze_step4")
    /\ progress_bar' = [progress_bar EXCEPT !.value = 80]
    /\ results_text' = display_results(analysis_results, gui_params, results_text)
    /\ timers' = fired("analyze_step4", "analysis_finished")
    /\ UNCHANGED <<fields, gui_params, buttons, analysis_results>>
    /\ UNCHANGED <<pc, params, D_SSA_max, D_R_max>>
    /\ UNCHANGED <<relayVars, equipVars, planVars, eventVars, simVars>>

analysis_finished ==
    /\ pending("analysis_finished")
    /\ progress_bar' = [progress_bar EXCEPT !.value = 100]
    /\ buttons' = [run_btn |-> TRUE, stop_btn |-> FALSE, demand_btn |-> TRUE,
                   cost_btn |-> TRUE, relay_btn |-> TRUE,
                   export_word_btn |-> TRUE]
    /\ timers' = SubSeq(fired("analysis_finished", "none"), 1, Len(timers) - 1)
    /\ UNCHANGED <<fields, gui_params, analysis_results, results_text>>
    /\ UNCHANGED <<pc, params, D_SSA_max, D_R_max>>
    /\ UNCHANGED <<relayVars, equipVars, planVars, eventVars, simVars>>

-----------------------------------------------------------------------------
(* Values of the variables a specification does not use                    *)

(* self.params as set by __init__ (fractions in the units stated above). *)
DefaultParams ==
    [R |-> 5, lambda_i |-> <<8, 12, 6, 10, 7>>,
     alpha1 |-> 20, alpha2 |-> 3,
     S_SSA |-> 8, T_cycle |-> 15, R_max |-> 3, R_cov |-> 15, beta |-> 13,
     p_SSA |-> 80000, p_R |-> 25000,
     gamma |-> [num |-> 6, den |-> 5]]
NoConfig == [x_SSA_opt |-> 0, x_R_opt |-> 0, total_cost |-> 0,
             peak_demand_SSA |-> 0, peak_demand_R |-> 0, status |-> "none"]

IdleRelay ==
    /\ eoc = <<0, 0>> /\ frontlines = <<>> /\ candidates = <<>>
    /\ relay_result = NoRelayResult
IdleEquip == config = NoConfig
IdlePlan ==
    /\ base_config = NoConfig /\ years = 0 /\ year = 0
    /\ F_SSA = 0 /\ F_R = 0 /\ results = <<>>
NoTape == [i \in 1..1 |-> 0]
IdleEvents ==
    /\ rng = np_random_seed(NoTape) /\ events = <<>>
    /\ D_SSA = ZeroSeries /\ D_R = ZeroSeries
Sims == {1, 2}
IdleSims ==
    /\ sim_pc = [s \in Sims |-> "idle"]
    /\ sim_events = [s \in Sims |-> <<>>]

(* The window as WeChatStyleWindow.__init__ leaves it: default texts,      *)
(* run enabled, stop and Word export disabled, the plot buttons enabled,   *)
(* the progress bar hidden with no value (QProgressBar starts at -1).      *)
InitialButtons ==
    [run_btn |-> TRUE, stop_btn |-> FALSE, demand_btn |-> TRUE,
     cost_btn |-> TRUE, relay_btn |-> TRUE, export_word_btn |-> FALSE]
IdleGui ==
    /\ fields = DefaultTexts
    /\ gui_params = GuiDefaultParams
    /\ progress_bar = [visible |-> FALSE, value |-> 0 - 1]
    /\ buttons = InitialButtons
    /\ timers = <<>>
    /\ analysis_results = NoResults
    /\ results_text = NoReport

-----------------------------------------------------------------------------
(* Specification of optimize_relay_deployment                              *)

InitRelay ==
    /\ pc = "ready"
    /\ eoc \in EocPositions
    /\ frontlines \in SeqsUpTo(Positions, MaxFrontlines)
    /\ candidates \in SeqsUpTo(Positions, MaxCandidates)
    /\ relay_result = NoRelayResult
    /\ params = DefaultParams /\ D_SSA_max = 0 /\ D_R_max = 0
    /\ IdleEquip /\ IdlePlan /\ IdleEvents /\ IdleSims /\ IdleGui

NextRelay == optimize_relay_deployment

SpecRelay == InitRelay /\ [][NextRelay]_vars

-----------------------------------------------------------------------------
(* Specification of optimize_equipment_config                              *)

MaxNegPeak == 2         \* negative peaks enumerated down to -MaxNegPeak
MaxPeak == 3            \* highest peak enumerated
MinPeak == 0 - MaxNegPeak

(* Safety factors enumerated: 1, 1.2 (the default) and 1.5.  For these     *)
(* values and whole peaks below 200 the float product gamma * D has the    *)
(* same ceiling as the exact fraction.                                     *)
Gammas == {[num |-> 1, den |-> 1], [num |-> 6, den |-> 5], [num |-> 3, den |-> 2]}

(* Unit prices enumerated (the two defaults, in either role). *)
Prices == {25000, 80000}

ParamChoices == [gamma : Gammas, p_SSA : Prices, p_R : Prices]

InitEquip ==
    /\ pc = "ready"
    /\ params \in ParamChoices
    /\ D_SSA_max \in MinPeak..MaxPeak
    /\ D_R_max \in MinPeak..MaxPeak
    /\ config = NoConfig
    /\ IdleRelay /\ IdlePlan /\ IdleEvents /\ IdleSims /\ IdleGui

NextEquip == optimize_equipment_config

SpecEquip == InitEquip /\ [][NextEquip]_vars

-----------------------------------------------------------------------------
(* Specification of multi_year_expansion                                   *)

MaxYears == 2           \* longest horizon enumerated (years + 1 passes)
MaxBase  == 2           \* highest count of the base configuration

(* The base configuration is a result of optimize_equipment_config for     *)
(* non-negative peaks: whole counts >= 0.  Only the counts are read.       *)
BaseConfigs ==
    {[NoConfig EXCEPT !.x_SSA_opt = a, !.x_R_opt = b, !.status = "Optimal"] :
        a \in 0..MaxBase, b \in 0..MaxBase}

PlanParams == [gamma : Gammas, p_SSA : {DefaultParams.p_SSA}, p_R : {DefaultParams.p_R}]

InitPlan ==
    /\ pc = "ready"
    /\ params \in PlanParams
    /\ base_config \in BaseConfigs
    /\ years \in 0..MaxYears
    /\ year = 0 /\ F_SSA = 0 /\ F_R = 0 /\ results = <<>>
    /\ D_SSA_max = 0 /\ D_R_max = 0
    /\ IdleRelay /\ IdleEquip /\ IdleEvents /\ IdleSims /\ IdleGui

NextPlan == multi_year_start \/ multi_year_iteration \/ multi_year_return

SpecPlan == InitPlan /\ [][NextPlan]_vars

-----------------------------------------------------------------------------
(* Specification of the base-year pipeline                                 *)
(* generate_fire_events -> calculate_equipment_demand ->                   *)
(* create_demand_timeseries -> optimize_equipment_config                   *)

(* Rate lists enumerated (R is their length): a single region of rate 0,   *)
(* a single region of rate 8, two regions of which the second has rate 0.  *)
LambdaChoices == {<<0>>, <<8>>, <<8, 0>>}

PipelineParams ==
    {[DefaultParams EXCEPT !.R = Len(l), !.lambda_i = l] : l \in LambdaChoices}

(* The state after np.random.seed(42) in main(): the stream of that seed   *)
(* is not known to the model, so every tape is enumerated.                 *)
InitPipeline ==
    /\ pc = "start"
    /\ params \in PipelineParams
    /\ rng \in {np_random_seed(tape) : tape \in Tapes}
    /\ events = <<>>
    /\ D_SSA = ZeroSeries /\ D_R = ZeroSeries
    /\ D_SSA_max = 0 /\ D_R_max = 0
    /\ config = NoConfig
    /\ IdleRelay /\ IdlePlan /\ IdleSims /\ IdleGui

NextPipeline ==
    \/ generate_fire_events
    \/ calculate_equipment_demand
    \/ create_demand_timeseries
    \/ main_peak_demand
    \/ optimize_equipment_config

SpecPipeline == InitPipeline /\ [][NextPipeline]_vars

-----------------------------------------------------------------------------
(* Specification of two simulations in one process                         *)

(* Both simulations use the same seed (42 in main()), year and parameters. *)
InitRng ==
    /\ pc = "sims"
    /\ params \in PipelineParams
    /\ rng \in {np_random_seed(tape) : tape \in Tapes}
    /\ events = <<>>
    /\ D_SSA = ZeroSeries /\ D_R = ZeroSeries
    /\ D_SSA_max = 0 /\ D_R_max = 0
    /\ IdleSims /\ IdleGui
    /\ IdleRelay /\ IdleEquip /\ IdlePlan

NextRng == \E s \in Sims : sim_seed(s) \/ sim_generate(s)

SpecRng == InitRng /\ [][NextRng]_vars

-----------------------------------------------------------------------------
(* Specification of the analysis window                                    *)

InitGui ==
    /\ pc = "window"
    /\ params = DefaultParams /\ D_SSA_max = 0 /\ D_R_max = 0
    /\ IdleGui
    /\ IdleRelay /\ IdleEquip /\ IdlePlan /\ IdleEvents /\ IdleSims

NextGui ==
    \/ \E f \in EditableFields :
           \E text \in TypedTexts \cup {DefaultTexts[f]} : edit_field(f, text)
    \/ save_parameters
    \/ run_simulation
    \/ analyze_step1
    \/ analyze_step2
    \/ analyze_step3
    \/ analyze_step4
    \/ analysis_finished

SpecGui == InitGui /\ [][NextGui]_vars

(* The event loop runs every scheduled single-shot callback: a callback    *)
(* that stays scheduled is eventually run.  Nothing obliges the user to    *)
(* edit, save or click.                                                    *)
TimersFire ==
    /\ WF_vars(analyze_step1)
    /\ WF_vars(analyze_step2)
    /\ WF_vars(analyze_step3)
    /\ WF_vars(analyze_step4)
    /\ WF_vars(analysis_finished)

SpecGuiFair == SpecGui /\ TimersFire

-----------------------------------------------------------------------------
(* Properties of optimize_relay_deployment (checked under SpecRelay)       *)

relay_done == pc = "done" /\ relay_result.status # "none"

(* Frontline position f is within R0 of the command center or of one of    *)
(* the positions in the list dep.                                          *)
Connected(f, dep) ==
    \/ calculate_distance_sq(f, eoc) <= R0 * R0
    \/ \E i \in 1..Len(dep) : calculate_distance_sq(f, dep[i]) <= R0 * R0

(* The candidates with indices in sel connect every frontline. *)
CoversAll(sel) ==
    \A k \in 1..Len(frontlines) :
        \/ calculate_distance_sq(frontlines[k], eoc) <= R0 * R0
        \/ \E j \in sel :
              calculate_distance_sq(frontlines[k], candidates[j]) <= R0 * R0

(* Some frontline can be reached neither directly nor from any candidate. *)
SomeFrontlineUnreachable ==
    \E k \in 1..Len(frontlines) :
        /\ calculate_distance_sq(frontlines[k], eoc) > R0 * R0
        /\ \A j \in 1..Len(candidates) :
              calculate_distance_sq(frontlines[k], candidates[j]) > R0 * R0

(* C1: whenever optimize_relay_deployment returns status "Optimal", every  *)
(* frontline position is within R0 of the command center or within R0 of   *)
(* at least one position of the returned deployed_positions.               *)
C1_CoverageWhenOptimal ==
    (relay_done /\ relay_result.status = "Optimal") =>
        \A k \in 1..Len(frontlines) :
            Connected(frontlines[k], relay_result.deployed_positions)

(* C1 witness: an "Optimal" result in which some frontline is out of the   *)
(* command center's reach and is connected through a deployed relay.       *)
C1_Witness ==
    /\ relay_done /\ relay_result.status = "Optimal"
    /\ relay_result.num_relays >= 1
    /\ \E k \in 1..Len(frontlines) :
          calculate_distance_sq(frontlines[k], eoc) > R0 * R0

(* C2: when some frontline is farther than R0 from the command center and  *)
(* no candidate lies within R0 of it, the returned status is "Infeasible": *)
(* the incomplete cover is never returned with status "Optimal".           *)
C2_InfeasibleReported ==
    (relay_done /\ SomeFrontlineUnreachable) =>
        relay_result.status = "Infeasible"

(* C2 witness: an unreachable frontline, candidates present, and a         *)
(* non-empty (necessarily incomplete) selection returned as "Infeasible".  *)
C2_Witness ==
    /\ relay_done /\ SomeFrontlineUnreachable
    /\ Len(candidates) >= 1
    /\ relay_result.num_relays >= 1
    /\ relay_result.status = "Infeasible"

(* C3: the number of relays returned is the minimum size of a candidate    *)
(* subset that connects every frontline: no connecting subset is smaller,  *)
(* and when a connecting subset exists one of the returned size exists.    *)
C3_MinimumRelays ==
    relay_done =>
        /\ \A sel \in SUBSET (1..Len(candidates)) :
              CoversAll(sel) => Cardinality(sel) >= relay_result.num_relays
        /\ (\E sel \in SUBSET (1..Len(candidates)) : CoversAll(sel)) =>
              \E sel \in SUBSET (1..Len(candidates)) :
                  CoversAll(sel) /\ Cardinality(sel) = relay_result.num_relays

(* C3 witness: two distinct candidates each of which alone connects every  *)
(* frontline, a relay is needed, and exactly one is deployed.              *)
C3_Witness ==
    /\ relay_done /\ Len(candidates) = 2 /\ candidates[1] # candidates[2]
    /\ CoversAll({1}) /\ CoversAll({2}) /\ ~CoversAll({})
    /\ relay_result.num_relays = 1

(* C4: one frontline at distance exactly R0 from the command center and    *)
(* no candidates gives status "Optimal" with zero relays selected.         *)
C4_BoundaryDirectLink ==
    (/\ relay_done
     /\ Len(frontlines) = 1
     /\ calculate_distance_sq(frontlines[1], eoc) = R0 * R0
     /\ candidates = <<>>) =>
        /\ relay_result.status = "Optimal"
        /\ relay_result.num_relays = 0
        /\ relay_result.deployed_positions = <<>>

(* C4 witness: the call has returned for such a boundary input. *)
C4_Witness ==
    /\ relay_done
    /\ Len(frontlines) = 1
    /\ calculate_distance_sq(frontlines[1], eoc) = R0 * R0
    /\ candidates = <<>>
    /\ relay_result.status = "Optimal"

(* C5: with an empty frontline list the result is "Optimal" with an empty  *)
(* deployed_positions and num_relays = 0, whatever the candidate list.     *)
C5_EmptyFrontlines ==
    (relay_done /\ frontlines = <<>>) =>
        /\ relay_result.status = "Optimal"
        /\ relay_result.deployed_positions = <<>>
        /\ relay_result.num_relays = 0

(* C5 witness: the call has returned for no frontlines and two candidates. *)
C5_Witness ==
    /\ relay_done /\ frontlines = <<>> /\ Len(candidates) = 2
    /\ relay_result.num_relays = 0

-----------------------------------------------------------------------------
(* Properties of optimize_equipment_config (checked under SpecEquip)       *)

equip_done == pc = "done" /\ config.status # "none"

(* x is the ceiling of gamma * P: x >= gamma * P > x - 1. *)
IsCeilOf(x, gamma, P) ==
    /\ x * gamma.den >= gamma.num * P
    /\ (x - 1) * gamma.den < gamma.num * P

(* C6: for peak demands >= 0 and gamma >= 1 the returned counts are        *)
(* exactly ceil(gamma * P_SSA) and ceil(gamma * P_R).                      *)
C6_CountsAreCeil ==
    (/\ equip_done
     /\ D_SSA_max >= 0 /\ D_R_max >= 0
     /\ params.gamma.num >= params.gamma.den) =>
        /\ IsCeilOf(config.x_SSA_opt, params.gamma, D_SSA_max)
        /\ IsCeilOf(config.x_R_opt, params.gamma, D_R_max)

(* C6 witness: gamma * P is not whole for either class, so the ceiling     *)
(* rounds up strictly.                                                     *)
C6_Witness ==
    /\ equip_done
    /\ D_SSA_max >= 1 /\ D_R_max >= 1
    /\ params.gamma.num > params.gamma.den
    /\ config.x_SSA_opt * params.gamma.den > params.gamma.num * D_SSA_max
    /\ config.x_R_opt * params.gamma.den > params.gamma.num * D_R_max

(* C7 (as claimed): no returned count is negative for any peak-demand      *)
(* input, and a negative required level shows in the status field.         *)
C7_CountsNonNegative ==
    equip_done =>
        /\ config.x_SSA_opt >= 0
        /\ config.x_R_opt >= 0
        /\ (D_SSA_max < 0 \/ D_R_max < 0) => config.status # "Optimal"

(* C8: total_cost is p_SSA * x_SSA_opt + p_R * x_R_opt for the returned    *)
(* counts, and the peak_demand fields are the arguments unchanged.         *)
C8_CostAndEcho ==
    equip_done =>
        /\ config.total_cost =
              params.p_SSA * config.x_SSA_opt + params.p_R * config.x_R_opt
        /\ config.peak_demand_SSA = D_SSA_max
        /\ config.peak_demand_R = D_R_max

(* C8 witness: distinct prices, distinct positive counts. *)
C8_Witness ==
    /\ equip_done
    /\ params.p_SSA # params.p_R
    /\ config.x_SSA_opt > config.x_R_opt /\ config.x_R_opt > 0
    /\ config.total_cost > 0

-----------------------------------------------------------------------------
(* Properties of multi_year_expansion (checked under SpecPlan)             *)

plan_returned == pc = "done" /\ Len(results) >= 1

RECURSIVE SumAnnualCost(_, _)
SumAnnualCost(rs, n) ==
    IF n = 0 THEN 0 ELSE rs[n].annual_cost + SumAnnualCost(rs, n - 1)

(* C9: in every year record, per class, the inventory is the previous      *)
(* year's inventory plus the year's purchase; before year 0 the inventory  *)
(* is the base configuration's count.                                      *)
C9_InventoryRecurrence ==
    \A i \in 1..Len(results) :
        /\ results[i].inventory_SSA =
              (IF i = 1 THEN base_config.x_SSA_opt
                        ELSE results[i - 1].inventory_SSA) + results[i].buy_SSA
        /\ results[i].inventory_R =
              (IF i = 1 THEN base_config.x_R_opt
                        ELSE results[i - 1].inventory_R) + results[i].buy_R

(* C9 witness: a returned plan with purchases of both classes in its       *)
(* second year record, on top of a non-zero inventory.                     *)
C9_Witness ==
    /\ plan_returned /\ Len(results) >= 2
    /\ results[1].inventory_SSA > 0 /\ results[1].inventory_R > 0
    /\ results[2].buy_SSA > 0 /\ results[2].buy_R > 0

(* C10 (as claimed): the annual costs of a returned plan sum to            *)
(* p_SSA * final inventory_SSA + p_R * final inventory_R.                  *)
C10_SumEqualsFinalInventoryCost ==
    plan_returned =>
        SumAnnualCost(results, Len(results)) =
            params.p_SSA * results[Len(results)].inventory_SSA
                + params.p_R * results[Len(results)].inventory_R

(* C10 (amended): the annual costs of a returned plan sum to the cost of   *)
(* the inventory added on top of the base configuration:                   *)
(* p_SSA * (final inventory_SSA - base x_SSA_opt)                          *)
(*   + p_R * (final inventory_R - base x_R_opt).                           *)
C10_SumEqualsAddedInventoryCost ==
    plan_returned =>
        SumAnnualCost(results, Len(results)) =
            params.p_SSA * (results[Len(results)].inventory_SSA
                                - base_config.x_SSA_opt)
                + params.p_R * (results[Len(results)].inventory_R
                                    - base_config.x_R_opt)

(* C10 witness: a returned plan that starts from a non-zero base and buys  *)
(* in two different years.                                                 *)
C10_Witness ==
    /\ plan_returned /\ Len(results) >= 2
    /\ base_config.x_SSA_opt > 0 /\ base_config.x_R_opt > 0
    /\ results[1].annual_cost > 0 /\ results[2].annual_cost > 0

(* The inventory of a class entering year record i. *)
EnteringSSA(i) ==
    IF i = 1 THEN base_config.x_SSA_opt ELSE results[i - 1].inventory_SSA
EnteringR(i) ==
    IF i = 1 THEN base_config.x_R_opt ELSE results[i - 1].inventory_R

(* C11: across the year records of a plan, per class, the inventory never  *)
(* decreases from one year to the next nor falls below the base            *)
(* configuration's count, and every purchase is >= 0.                      *)
C11_InventoryMonotone ==
    \A i \in 1..Len(results) :
        /\ results[i].inventory_SSA >= EnteringSSA(i)
        /\ results[i].inventory_R >= EnteringR(i)
        /\ results[i].inventory_SSA >= base_config.x_SSA_opt
        /\ results[i].inventory_R >= base_config.x_R_opt
        /\ results[i].buy_SSA >= 0
        /\ results[i].buy_R >= 0

(* C11 witness: a returned plan with a year whose required levels are      *)
(* below the inventories entering it, so that max(0, .) decides.           *)
C11_Witness ==
    /\ plan_returned
    /\ \E i \in 1..Len(results) :
          /\ results[i].required_SSA < EnteringSSA(i)
          /\ results[i].required_R < EnteringR(i)
          /\ results[i].inventory_SSA = EnteringSSA(i)

(* C20: in every year and for each class, required = ceil(gamma * peak),   *)
(* the purchase is max(0, required - entering inventory) (0 when the       *)
(* entering inventory suffices), the inventory after the year is           *)
(* >= required, and annual_cost = p_SSA * buy_SSA + p_R * buy_R.           *)
C20_PurchaseRule ==
    \A i \in 1..Len(results) :
        LET r == results[i] IN
        /\ IsCeilOf(r.required_SSA, params.gamma, r.peak_demand_SSA)
        /\ IsCeilOf(r.required_R, params.gamma, r.peak_demand_R)
        /\ (EnteringSSA(i) >= r.required_SSA) => r.buy_SSA = 0
        /\ (EnteringSSA(i) < r.required_SSA) =>
              r.buy_SSA = r.required_SSA - EnteringSSA(i)
        /\ (EnteringR(i) >= r.required_R) => r.buy_R = 0
        /\ (EnteringR(i) < r.required_R) =>
              r.buy_R = r.required_R - EnteringR(i)
        /\ r.inventory_SSA >= r.required_SSA
        /\ r.inventory_R >= r.required_R
        /\ r.annual_cost = params.p_SSA * r.buy_SSA + params.p_R * r.buy_R

(* C20 witness: a returned plan with one year that buys both classes and a *)
(* later year that buys nothing because the inventory already suffices.    *)
C20_Witness ==
    /\ plan_returned /\ Len(results) >= 2
    /\ \E i, j \in 1..Len(results) :
          /\ i < j
          /\ EnteringSSA(i) > 0
          /\ results[i].buy_SSA > 0 /\ results[i].buy_R > 0
          /\ results[j].peak_demand_SSA > 0
          /\ results[j].buy_SSA = 0 /\ results[j].buy_R = 0

-----------------------------------------------------------------------------
(* Properties of the base-year pipeline (checked under SpecPipeline)       *)

events_generated == pc \in {"generated", "demanded", "aggregated", "ready", "done"}
demand_calculated == pc \in {"demanded", "aggregated", "ready", "done"}
series_created == pc \in {"aggregated", "ready", "done"}
peaks_taken == pc \in {"ready", "done"}

(* Hour t lies in the event's window [start, start + duration) and in the  *)
(* year (duration is in 1/1000 h).                                         *)
ActiveAt(ev, t) ==
    /\ ev.start_time <= t
    /\ t * 1000 < ev.start_time * 1000 + ev.duration
    /\ t < hours_per_year

RECURSIVE ExpectedSSA(_, _, _)
ExpectedSSA(evs, n, t) ==
    IF n = 0 THEN 0
    ELSE (IF ActiveAt(evs[n], t) THEN evs[n].n_SSA ELSE 0)
             + ExpectedSSA(evs, n - 1, t)

RECURSIVE ExpectedR(_, _, _)
ExpectedR(evs, n, t) ==
    IF n = 0 THEN 0
    ELSE (IF ActiveAt(evs[n], t) THEN evs[n].n_R ELSE 0)
             + ExpectedR(evs, n - 1, t)

(* C12 (as claimed): every hour t of the series holds the sum, over the    *)
(* events with start <= t < start + duration and t < 8760, of the event's  *)
(* n_SSA (resp. n_R), fractional durations included; nothing else is added. *)
C12_SeriesMatchesWindows ==
    series_created =>
        \A t \in TrackedHours :
            /\ D_SSA[t] = ExpectedSSA(events, Len(events), t)
            /\ D_R[t] = ExpectedR(events, Len(events), t)

(* C13: with a single region of rate 0, generate_fire_events returns no    *)
(* event, the series are all zero with peak 0 for both classes, and        *)
(* optimize_equipment_config returns count 0 for both classes.             *)
C13_ZeroRatePipeline ==
    (params.R = 1 /\ params.lambda_i = <<0>>) =>
        /\ events_generated => events = <<>>
        /\ series_created =>
              \A t \in TrackedHours : D_SSA[t] = 0 /\ D_R[t] = 0
        /\ peaks_taken => (D_SSA_max = 0 /\ D_R_max = 0)
        /\ pc = "done" => (config.x_SSA_opt = 0 /\ config.x_R_opt = 0)

(* C13 witness: the pipeline has run to its end for the zero-rate region,  *)
(* on a stream whose first raw entry would give a positive count for a     *)
(* positive rate.                                                          *)
C13_Witness ==
    /\ pc = "done" /\ config.status = "Optimal"
    /\ params.R = 1 /\ params.lambda_i = <<0>>
    /\ rng.tape[1] % (MaxFires + 1) # 0

(* C14: every generated event has start hour in [0, 8760), area in         *)
(* [0.1, 10.0], duration in [4, 48], crew count >= 1 and fireline length   *)
(* >= 0; after calculate_equipment_demand its n_SSA and n_R are >= 1.      *)
C14_EventRanges ==
    /\ events_generated =>
          \A i \in 1..Len(events) :
              /\ events[i].start_time >= 0
              /\ events[i].start_time < 8760
              /\ events[i].area >= 10 /\ events[i].area <= 1000
              /\ events[i].duration >= 4000 /\ events[i].duration <= 48000
              /\ events[i].squads >= 10
              /\ events[i].fireline_length >= 0
    /\ demand_calculated =>
          \A i \in 1..Len(events) :
              events[i].n_SSA >= 1 /\ events[i].n_R >= 1

(* C14 witness: demands calculated for two events, one drawn below the     *)
(* lower area clamp and one above the upper clamp.                         *)
C14_Witness ==
    /\ pc = "demanded"
    /\ \E i, j \in 1..Len(events) :
          /\ events[i].area = 10 /\ events[i].duration = 4000
          /\ events[j].area = 1000 /\ events[j].duration = 48000
          /\ events[i].n_SSA >= 1 /\ events[j].n_SSA > events[i].n_SSA

-----------------------------------------------------------------------------
(* Properties of simulations sharing np.random (checked under SpecRng)     *)

(* The generator state a simulation running alone has before its k-th     *)
(* call of generate_fire_events, and the list that call returns.           *)
RECURSIVE alone_rng(_, _, _)
alone_rng(p, tape, k) ==
    IF k = 1 THEN np_random_seed(tape)
    ELSE gen_events(p, 0, alone_rng(p, tape, k - 1)).rng

AloneEvents(p, tape, k) == gen_events(p, 0, alone_rng(p, tape, k)).events

(* C15 (as claimed): for the one seed, year and configuration, every call  *)
(* of generate_fire_events returns the same event list, whatever calls     *)
(* drew from the stream before it.                                         *)
C15_RepeatedCallsIdentical ==
    \A s, t \in Sims :
        \A i \in 1..Len(sim_events[s]), j \in 1..Len(sim_events[t]) :
            sim_events[s][i] = sim_events[t][j]

(* C16 (as claimed): with the calls of two simulations interleaved, every  *)
(* call of a simulation returns the events the simulation obtains when it  *)
(* runs alone.                                                             *)
C16_NoInterference ==
    \A s \in Sims :
        \A k \in 1..Len(sim_events[s]) :
            sim_events[s][k] = AloneEvents(params, rng.tape, k)

-----------------------------------------------------------------------------
(* Properties of the analysis window (checked under SpecGui)               *)

(* A configuration as the requirements accept it: every rate, price and    *)
(* area positive, as many rates as regions.                                *)
valid_config(p) ==
    /\ \A i \in 1..Len(p.lambda_i) : p.lambda_i[i] > 0
    /\ p.p_SSA > 0 /\ p.p_R > 0
    /\ p.A_mean > 0 /\ p.S_SSA > 0
    /\ p.R = Len(p.lambda_i)

(* The first analysis step (event generation) of a run has been started    *)
(* and the run has not finished.                                           *)
step_started ==
    \E cb \in {"analyze_step2", "analyze_step3", "analyze_step4",
               "analysis_finished"} : pending(cb)

(* C17 (as claimed): no analysis step is ever started with a configuration *)
(* that has a non-positive rate, price or area, or a region count          *)
(* different from the number of rates.                                     *)
C17_InvalidConfigRejected == step_started => valid_config(gui_params)

(* The stored record is the one of the except branch of analyze_step3:     *)
(* the only record without the keys run_analysis adds beside 'config'.     *)
step3_failed ==
    /\ has_analysis_results(analysis_results)
    /\ "multi_year" \notin DOMAIN analysis_results

(* The report shows the counts and the cost of the stored record. *)
displays_results ==
    /\ results_text # NoReport
    /\ results_text.x_SSA_opt = analysis_results.config.x_SSA_opt
    /\ results_text.x_R_opt = analysis_results.config.x_R_opt
    /\ results_text.total_cost = analysis_results.config.total_cost

(* C18 (as claimed): when the optimization step failed, the stored result  *)
(* carries an explicit non-optimal status and no substituted counts or     *)
(* costs are displayed as a result.                                        *)
C18_NoPlaceholderResult ==
    step3_failed =>
        /\ "status" \in DOMAIN analysis_results.config
        /\ analysis_results.config.status # "Optimal"
        /\ ~displays_results

(* C19 (as claimed): every record handed to the display satisfies          *)
(* x_SSA_opt >= ceil(gamma * peak_demand_SSA) and                          *)
(* x_R_opt >= ceil(gamma * peak_demand_R), gamma being the model's safety  *)
(* factor (hundredths) and the peaks being in thousandths.                 *)
C19_RecordCoversDemand ==
    has_analysis_results(analysis_results) =>
        LET c == analysis_results.config
        IN  /\ c.x_SSA_opt >= ceil_frac(gui_params.gamma * c.peak_demand_SSA, 100000)
            /\ c.x_R_opt >= ceil_frac(gui_params.gamma * c.peak_demand_R, 100000)

(* A chain of analysis steps is in flight: one of its callbacks is         *)
(* scheduled.                                                              *)
chain_in_flight == timers # <<>>

(* C21: exactly one of the run button and the stop button is enabled; the  *)
(* run button is disabled while a chain of steps is in flight, and at most *)
(* one chain is in flight.                                                 *)
C21_RunXorStop ==
    /\ buttons.run_btn # buttons.stop_btn
    /\ chain_in_flight => ~buttons.run_btn
    /\ Len(timers) <= 1

(* C21 witness: a second run is in flight (step 3 is scheduled) after a    *)
(* first run has finished and enabled the export button.                   *)
C21_Witness ==
    /\ pending("analyze_step3")
    /\ buttons.stop_btn /\ ~buttons.run_btn
    /\ buttons.export_word_btn
    /\ has_analysis_results(analysis_results)

(* A run has reached analysis_finished. *)
analysis_done == progress_bar.value = 100 /\ buttons.run_btn /\ ~chain_in_flight

(* A change of the progress value is a step of 20 within a run, or the     *)
(* reset to 0 by which the next run starts.                                *)
ProgressStep ==
    progress_bar'.value # progress_bar.value =>
        \/ /\ chain_in_flight
           /\ progress_bar.value \in {0, 20, 40, 60, 80}
           /\ progress_bar'.value = progress_bar.value + 20
        \/ /\ ~chain_in_flight
           /\ progress_bar'.value = 0
           /\ pending("analyze_step1")'

(* C22: with the scheduled timers firing, every run started by             *)
(* run_simulation reaches analysis_finished (progress 100, run button      *)
(* enabled); within a run the progress value goes 0, 20, 40, 60, 80, 100   *)
(* and never decreases, also when step 3 takes its except branch.          *)
C22_RunCompletes ==
    /\ [][ProgressStep]_vars
    /\ chain_in_flight ~> analysis_done

(* C22 witness: a run in which the call of step 3 raised (the years field  *)
(* is no number) has finished.                                             *)
C22_Witness ==
    /\ analysis_done
    /\ ~int_ok(fields["years_input"])
    /\ analysis_results = fallback_results
    /\ results_text # NoReport

(* The keys of analysis_results['config'] that create_word_report reads. *)
ConfigKeysRead ==
    {"x_SSA_opt", "x_R_opt", "total_cost", "peak_demand_SSA", "peak_demand_R"}

all_fields_parse(flds) ==
    /\ int_ok(flds["region_count"])
    /\ \A i \in 1..Len(RegionFreqFields) : float_ok(flds[RegionFreqFields[i]])
    /\ \A f \in FloatFields : float_ok(flds[f])

(* The fourteen keys of model.params hold the numbers of the fields. *)
params_match_fields(p, flds) ==
    /\ DOMAIN p = {"R", "lambda_i"} \cup FloatFields
    /\ p.R = int_of(flds["region_count"])
    /\ Len(p.lambda_i) = Len(RegionFreqFields)
    /\ \A i \in 1..Len(RegionFreqFields) :
           p.lambda_i[i] = float_of(flds[RegionFreqFields[i]])
    /\ \A f \in FloatFields : p[f] = float_of(flds[f])

(* C24: save_parameters (also as called by run_simulation) leaves          *)
(* model.params entirely unchanged when a field fails to parse, and        *)
(* replaces all fourteen keys together when every field parses; no other   *)
(* step changes model.params.                                              *)
C24_SaveAllOrNothing ==
    [][/\ (save_parameters \/ run_simulation) =>
              IF all_fields_parse(fields)
              THEN params_match_fields(gui_params', fields)
              ELSE gui_params' = gui_params
       /\ gui_params' # gui_params =>
              /\ all_fields_parse(fields)
              /\ params_match_fields(gui_params', fields)]_vars

(* C24 witness: run_simulation has called save_parameters with a field of  *)
(* the middle of the dict (A_mean) holding no number, and model.params     *)
(* still holds the values of __init__, whose rates differ from the texts   *)
(* of the rate fields.                                                     *)
C24_Witness ==
    /\ pending("analyze_step1")
    /\ ~float_ok(fields["A_mean"])
    /\ gui_params = GuiDefaultParams
    /\ ~params_match_fields(GuiDefaultParams, DefaultTexts)

====
